---- MODULE Spec2Model ----
(***************************************************************************)
(* A model of cupdi (src/cupdi.c): the top-level run of main from the      *)
(* point where the command line has been parsed, and the helpers it calls  *)
(* (updi_erase, updi_fuse, load_hex, verify_hex, updi_flash, updi_save,    *)
(* updi_read, updi_write).  The driver (updi/nvm.h), the hex codec         *)
(* (ihex/ihex.h) and the tokenizer (string/split.h) are outside src/: a    *)
(* driver call is an entry appended to `log` whose return code is an input *)
(* of the step, a hex file is the record span and the parse results the    *)
(* codec reports, a command string is the token list the tokenizer yields. *)
(***************************************************************************)
EXTENDS Integers, Sequences, FiniteSets, TLC

VARIABLES
    pc,        \* position of main: the next top-level step
    dev_name,  \* the -d argument: the name of the target device
    flag,      \* set of FLAG_* bits (src/cupdi.c:65, :77)
    file,      \* the -f argument: NULL or a hex file
    fuses,     \* the fuse spec: NULL or a command string
    read,      \* the direct read command: NULL or a command string
    write,     \* the direct write command: NULL or a command string
    unlock,    \* main's local `unlock`
    nvm_ptr,   \* the session handle: NULL or the session
    result,    \* main's local `result`
    geo,       \* the flash geometry the driver reports for the device
    log,       \* the driver calls issued so far, in order
    steps,     \* per top-level helper call: what it returned and observed
    heap       \* buffers: allocations and releases done by helper calls

vars == <<pc, dev_name, flag, file, fuses, read, write, unlock, nvm_ptr, result, geo, log, steps, heap>>

(***************************************************************************)
(* Bounds of the model.                                                    *)
(***************************************************************************)
\* largest number of byte tokens of a direct write command
MaxBytes == 33
\* largest image length (bytes) of the verify_hex inputs
MaxVerifyLen == 3

(***************************************************************************)
(* Program constants.                                                      *)
(***************************************************************************)
UPDI_READ_STROKEN_LEN == 255
UPDI_WRITE_STROKEN_LEN == 16

FLAG_UNLOCK == "FLAG_UNLOCK"
FLAG_ERASE == "FLAG_ERASE"
FLAG_PROG == "FLAG_PROG"
FLAG_CHECK == "FLAG_CHECK"
FLAG_SAVE == "FLAG_SAVE"
Flags == {FLAG_UNLOCK, FLAG_ERASE, FLAG_PROG, FLAG_CHECK, FLAG_SAVE}

\* return codes a driver call can give: 0 is success, anything else failure
DriverFail == {-1, 2}
DriverResults == {0} \cup DriverFail

(***************************************************************************)
(* u32 arithmetic.  A 32-bit value is [h, l], two 16-bit halves, so that   *)
(* additions and subtractions wrap at 2^32 as the C code's u32 does.  The  *)
(* same records with an unreduced h are the unbounded integers the claims  *)
(* compare the wrapped results with.                                       *)
(***************************************************************************)
Half == 2^16

Norm(h, l) == [h |-> h + (l \div Half), l |-> l % Half]
Wrap32(x) == [h |-> x.h % Half, l |-> x.l]
U32(n) == Norm(0, n)
\* 2^32 - n, for small n
U32Neg(n) == Wrap32(Norm(0, 0 - n))

MAdd(x, y) == Norm(x.h + y.h, x.l + y.l)
MSub(x, y) == Norm(x.h - y.h, x.l - y.l)
Add32(x, y) == Wrap32(MAdd(x, y))
Sub32(x, y) == Wrap32(MSub(x, y))
Lt(x, y) == x.h < y.h \/ (x.h = y.h /\ x.l < y.l)
Le(x, y) == x = y \/ Lt(x, y)

RECURSIVE BitAnd(_, _, _)
BitAnd(a, b, bits) ==
    IF bits = 0 \/ a = 0 \/ b = 0 THEN 0
    ELSE (a % 2) * (b % 2) + 2 * BitAnd(a \div 2, b \div 2, bits - 1)

And32(x, y) == [h |-> BitAnd(x.h, y.h, 16), l |-> BitAnd(x.l, y.l, 16)]
Not32(x) == [h |-> Half - 1 - x.h, l |-> Half - 1 - x.l]
\* the value as a TLA+ integer; only for values below 2^31
ToInt(x) == x.h * Half + x.l

(***************************************************************************)
(* Driver calls and buffers.                                               *)
(***************************************************************************)
\* one driver call: who issued it, which driver function, its address and
\* length arguments, the bytes handed over, and the code it returned
Call(by, op, a, n, d, ret) == [by |-> by, op |-> op, a |-> a, n |-> n, d |-> d, ret |-> ret]
\* no value (an argument a call does not have, a result not produced)
None == [none |-> TRUE]

Malloc(buf) == <<"malloc", buf>>
Free(buf) == <<"free", buf>>
\* malloc(size) of a C int: a negative size converts to a size_t no allocator
\* can satisfy; every other request of this program is assumed to be granted
MallocOk(size) == size >= 0

\* the null pointer
NULL == [null |-> TRUE]

(***************************************************************************)
(* The hex codec (ihex/ihex.h), as src/cupdi.c uses it.  A hex file is     *)
(* [addr_from, addr_to, info, load]: the first and last record address and *)
(* the codes get_hex_info returns for the sizing call and the loading call.*)
(***************************************************************************)
\* the byte the hex file holds for raw address x
HexByte(x) == (x.l * 7 + 3) % 256

\* the image buffer after memset(0xff) and the loading call: the record
\* bytes at their positions from the aligned start, 0xff elsewhere
HexData(hex, from, size) ==
    [i \in 1..ToInt(size) |->
        LET x == MAdd(from, U32(i - 1))
        IN  IF Le(hex.addr_from, x) /\ Le(x, hex.addr_to) THEN HexByte(x) ELSE 255]

(***************************************************************************)
(* load_hex (src/cupdi.c:303-359).                                         *)
(***************************************************************************)
\* sizeof(hex_data_t) (ihex/ihex.h): the fields addr_from, addr_to, len,
\* offset, total_size, actual_size and the data pointer
sizeof_hex_data_t == 32

AlignTo(addr_to, mask) == Sub32(And32(Add32(addr_to, mask), Not32(mask)), U32(1))

BoundsExceeded(to, iflash) == ~Lt(to, Add32(iflash.flash_start, iflash.flash_size))

\* line 322: len = size + sizeof(*dhex) is a sum of u32; it has wrapped when
\* it is below sizeof(*dhex)
BlockTooSmall(size) == Lt(Add32(size, U32(sizeof_hex_data_t)), U32(sizeof_hex_data_t))

\* killed: the block malloc(len) grants is smaller than header and image
\* (len wrapped), lines 338-342 write sizeof(*dhex) + size bytes into it,
\* 2^32 - sizeof(*dhex) or more of them past its end, and the process is
\* killed (SIGSEGV) before the loading call of line 344
load_hex(hex, iflash) ==
    LET mask == Sub32(iflash.flash_pagesize, U32(1))
        from0 == And32(hex.addr_from, Not32(mask))
        to0 == AlignTo(hex.addr_to, mask)
        size == Add32(Sub32(to0, from0), U32(1))
        off == And32(hex.addr_from, mask)
        tr == Lt(from0, iflash.flash_start)
        from == IF tr THEN Add32(from0, iflash.flash_start) ELSE from0
        to == IF tr THEN Add32(to0, iflash.flash_start) ELSE to0
    IN  IF hex.info # 0 THEN [dhex |-> NULL, mem |-> <<>>, killed |-> FALSE]
        ELSE IF BoundsExceeded(to, iflash) THEN [dhex |-> NULL, mem |-> <<>>, killed |-> FALSE]
        ELSE IF BlockTooSmall(size)
             THEN [dhex |-> NULL, mem |-> <<Malloc("dhex")>>, killed |-> TRUE]
        ELSE IF hex.load # 0
             THEN [dhex |-> NULL, mem |-> <<Malloc("dhex"), Free("dhex")>>, killed |-> FALSE]
        ELSE [dhex |-> [addr_from |-> from, addr_to |-> to, len |-> size,
                        offset |-> off, data |-> HexData(hex, from0, size)],
              mem |-> <<Malloc("dhex")>>, killed |-> FALSE]

\* unload_hex that releases nothing
unload_hex_Leak(dhex_ptr) == <<>>

unload_hex(dhex_ptr) == IF dhex_ptr # NULL THEN <<Free("dhex")>> ELSE <<>>

(***************************************************************************)
(* verify_hex (src/cupdi.c:368-407).  r is the code nvm_read_flash         *)
(* returns and rdata the bytes it put into the buffer.                     *)
(***************************************************************************)
\* a compare loop that does not look at offset 0
RECURSIVE CompareLoop_SkipFirst(_, _, _, _)
CompareLoop_SkipFirst(data, rdata, i, len) ==
    IF i < len /\ (i = 0 \/ data[i + 1] = rdata[i + 1])
    THEN CompareLoop_SkipFirst(data, rdata, i + 1, len)
    ELSE i

\* the compare loop: the value of i when the loop is left
RECURSIVE CompareLoop(_, _, _, _)
CompareLoop(data, rdata, i, len) ==
    IF i < len /\ data[i + 1] = rdata[i + 1]
    THEN CompareLoop(data, rdata, i + 1, len)
    ELSE i

verify_hex(dhex, r, rdata) ==
    LET len == ToInt(dhex.len)
        call == Call("verify_hex", "nvm_read_flash", dhex.addr_from, dhex.len, <<>>, r)
        i == CompareLoop(dhex.data, rdata, 0, len)
        mem == <<Malloc("rdata"), Free("rdata")>>
    IN  IF r # 0 THEN [ret |-> -3, calls |-> <<call>>, mem |-> mem, diag |-> -1]
        ELSE IF i < len THEN [ret |-> -4, calls |-> <<call>>, mem |-> mem, diag |-> i]
        ELSE [ret |-> 0, calls |-> <<call>>, mem |-> mem, diag |-> -1]

(***************************************************************************)
(* updi_flash (src/cupdi.c:409-456).  r[1..4] are the codes of             *)
(* nvm_get_flash_info, nvm_chip_erase, nvm_write_flash and nvm_read_flash, *)
(* each used only if that call is made.  killed: the process was killed in *)
(* load_hex and updi_flash does not return.                                *)
(***************************************************************************)
\* the programming block going on to the write after a failed erase
flash_program_IgnoreErase(dhex, prog, re, rw) ==
    LET erase == Call("updi_flash", "nvm_chip_erase", None, None, <<>>, re)
        wr == Call("updi_flash", "nvm_write_flash", dhex.addr_from, dhex.len, dhex.data, rw)
    IN  IF ~prog THEN [ret |-> 0, calls |-> <<>>]
        ELSE IF rw # 0 THEN [ret |-> -3, calls |-> <<erase, wr>>]
        ELSE [ret |-> 0, calls |-> <<erase, wr>>]

\* the programming block run whether or not programming was asked for
flash_program_Always(dhex, prog, re, rw) ==
    LET erase == Call("updi_flash", "nvm_chip_erase", None, None, <<>>, re)
        wr == Call("updi_flash", "nvm_write_flash", dhex.addr_from, dhex.len, dhex.data, rw)
    IN  IF re # 0 THEN [ret |-> -3, calls |-> <<erase>>]
        ELSE IF rw # 0 THEN [ret |-> -3, calls |-> <<erase, wr>>]
        ELSE [ret |-> 0, calls |-> <<erase, wr>>]

\* lines 428-442: the programming block, with the codes of nvm_chip_erase
\* and nvm_write_flash
flash_program(dhex, prog, re, rw) ==
    LET erase == Call("updi_flash", "nvm_chip_erase", None, None, <<>>, re)
        wr == Call("updi_flash", "nvm_write_flash", dhex.addr_from, dhex.len, dhex.data, rw)
    IN  IF ~prog THEN [ret |-> 0, calls |-> <<>>]
        ELSE IF re # 0 THEN [ret |-> -3, calls |-> <<erase>>]
        ELSE IF rw # 0 THEN [ret |-> -3, calls |-> <<erase, wr>>]
        ELSE [ret |-> 0, calls |-> <<erase, wr>>]

updi_flash(hex, prog, iflash, r, rdata) ==
    LET info == Call("updi_flash", "nvm_get_flash_info", None, None, <<>>, r[1])
        ld == load_hex(hex, iflash)
        dhex == ld.dhex
        pg == flash_program(dhex, prog, r[2], r[3])
        v == verify_hex(dhex, r[4], rdata)
        out(ret, calls, mem, vr) ==
            [ret |-> ret, calls |-> calls, mem |-> mem \o unload_hex(dhex),
             dhex |-> dhex, verify |-> vr, killed |-> FALSE]
    IN  IF r[1] # 0
        THEN [ret |-> -4, calls |-> <<info>>, mem |-> <<>>, dhex |-> None, verify |-> None,
              killed |-> FALSE]
        ELSE IF ld.killed
        THEN [ret |-> None, calls |-> <<info>>, mem |-> ld.mem, dhex |-> NULL, verify |-> None,
              killed |-> TRUE]
        ELSE IF dhex = NULL
        THEN [ret |-> -2, calls |-> <<info>>, mem |-> ld.mem, dhex |-> NULL, verify |-> None,
              killed |-> FALSE]
        ELSE IF pg.ret # 0 THEN out(pg.ret, <<info>> \o pg.calls, ld.mem, None)
        ELSE IF v.ret # 0 THEN out(-3, <<info>> \o pg.calls \o v.calls, ld.mem \o v.mem, v)
        ELSE out(0, <<info>> \o pg.calls \o v.calls, ld.mem \o v.mem, v)

(***************************************************************************)
(* Command strings.  str_split (string/split.h) yields the token list of a *)
(* command, or NULL; a token is the sequence of its characters.  strtol is *)
(* the C library's: white space, a sign, for base 16 an optional 0x, then  *)
(* the digits of the base up to the first character that is none; the      *)
(* code converts the long it yields to int.                                *)
(***************************************************************************)
DigitVal(c) ==
    CASE c = "0" -> 0 [] c = "1" -> 1 [] c = "2" -> 2 [] c = "3" -> 3
      [] c = "4" -> 4 [] c = "5" -> 5 [] c = "6" -> 6 [] c = "7" -> 7
      [] c = "8" -> 8 [] c = "9" -> 9
      [] c \in {"a", "A"} -> 10 [] c \in {"b", "B"} -> 11
      [] c \in {"c", "C"} -> 12 [] c \in {"d", "D"} -> 13
      [] c \in {"e", "E"} -> 14 [] c \in {"f", "F"} -> 15
      [] OTHER -> 36

\* isspace in the C locale: space, \t, \n, \v, \f, \r
isspace(c) == c \in {" ", "\t", "\n", "", "\f", "\r"}

RECURSIVE SkipBlanks(_, _)
SkipBlanks(s, i) == IF i <= Len(s) /\ isspace(s[i]) THEN SkipBlanks(s, i + 1) ELSE i

\* The magnitude of a long is held in four 16-bit limbs, least significant
\* first: long has 64 bits in this build.  m * base + d, and whether the
\* result no longer fits the four limbs.
LongMulAdd(m, base, d) ==
    LET c1 == m[1] * base + d
        c2 == m[2] * base + (c1 \div Half)
        c3 == m[3] * base + (c2 \div Half)
        c4 == m[4] * base + (c3 \div Half)
    IN  [m |-> <<c1 % Half, c2 % Half, c3 % Half, c4 % Half>>, over |-> c4 >= Half]

\* the digits from s[i] on, accumulated into acc = [m, over]
RECURSIVE Digits(_, _, _, _)
Digits(s, i, base, acc) ==
    IF i > Len(s) \/ DigitVal(s[i]) >= base THEN acc
    ELSE Digits(s, i + 1, base,
                [m |-> LongMulAdd(acc.m, base, DigitVal(s[i])).m,
                 over |-> acc.over \/ LongMulAdd(acc.m, base, DigitVal(s[i])).over])

\* strtol's result as a long, [neg, m]: out of range it is LONG_MAX or
\* LONG_MIN
strtol_long(s, base) ==
    LET i0 == SkipBlanks(s, 1)
        neg == i0 <= Len(s) /\ s[i0] = "-"
        i1 == IF i0 <= Len(s) /\ s[i0] \in {"-", "+"} THEN i0 + 1 ELSE i0
        pre == /\ base = 16
               /\ i1 + 2 <= Len(s)
               /\ s[i1] = "0"
               /\ s[i1 + 1] \in {"x", "X"}
               /\ DigitVal(s[i1 + 2]) < 16
        v == Digits(s, IF pre THEN i1 + 2 ELSE i1, base, [m |-> <<0, 0, 0, 0>>, over |-> FALSE])
        top == Half \div 2
    IN  IF ~neg /\ (v.over \/ v.m[4] >= top)
        THEN [neg |-> FALSE, m |-> <<Half - 1, Half - 1, Half - 1, top - 1>>]
        ELSE IF neg /\ (v.over \/ v.m[4] > top
                        \/ (v.m[4] = top /\ <<v.m[1], v.m[2], v.m[3]>> # <<0, 0, 0>>))
        THEN [neg |-> TRUE, m |-> <<0, 0, 0, top>>]
        ELSE [neg |-> neg, m |-> v.m]

\* the conversion of a long to int: its low 32 bits, read as two's complement
LongToInt(v) ==
    LET l0 == IF v.neg THEN (Half - v.m[1]) % Half ELSE v.m[1]
        l1 == IF v.neg
              THEN (Half - 1 - v.m[2] + (IF v.m[1] = 0 THEN 1 ELSE 0)) % Half
              ELSE v.m[2]
    IN  IF l1 >= Half \div 2 THEN (l1 - Half) * Half + l0 ELSE l1 * Half + l0

\* (int)strtol(s, NULL, base), as every call in src/cupdi.c uses it
strtol(s, base) == LongToInt(strtol_long(s, base))

\* str_split(cmd, delim): NULL, or [tok |-> the tokens]; a command string is
\* the record [split |-> what str_split yields for it]
str_split(cmd) == cmd.split

(***************************************************************************)
(* updi_erase (src/cupdi.c:248-259).                                       *)
(***************************************************************************)
\* updi_erase dropping the driver's failure
updi_erase_Swallow(r) ==
    [ret |-> 0,
     calls |-> <<Call("updi_erase", "nvm_chip_erase", None, None, <<>>, r)>>]

updi_erase(r) ==
    [ret |-> IF r # 0 THEN -2 ELSE 0,
     calls |-> <<Call("updi_erase", "nvm_chip_erase", None, None, <<>>, r)>>]

(***************************************************************************)
(* updi_fuse (src/cupdi.c:261-300).                                        *)
(***************************************************************************)
\* updi_fuse taking the first two of two or more tokens
updi_fuse_AtLeastTwo(cmd, r) ==
    LET tokens == str_split(cmd)
        i == Len(tokens.tok)
        idx == strtol(tokens.tok[1], 10)
        value == strtol(tokens.tok[2], 16)
        call == Call("updi_fuse", "nvm_write_fuse", idx, None, <<value % 256>>, r)
    IN  IF tokens = NULL THEN [ret |-> -2, calls |-> <<>>]
        ELSE IF i >= 2
             THEN [ret |-> IF r # 0 THEN -3 ELSE 0, calls |-> <<call>>]
        ELSE [ret |-> -4, calls |-> <<>>]

updi_fuse(cmd, r) ==
    LET tokens == str_split(cmd)
        i == Len(tokens.tok)
        idx == strtol(tokens.tok[1], 10)
        value == strtol(tokens.tok[2], 16)
        call == Call("updi_fuse", "nvm_write_fuse", idx, None, <<value % 256>>, r)
    IN  IF tokens = NULL THEN [ret |-> -2, calls |-> <<>>]
        ELSE IF i = 2
             THEN [ret |-> IF r # 0 THEN -3 ELSE 0, calls |-> <<call>>]
        ELSE [ret |-> -4, calls |-> <<>>]

(***************************************************************************)
(* updi_save (src/cupdi.c:458-510).  r[1], r[2] are the codes of           *)
(* nvm_get_flash_info and nvm_read_flash, enc the code of save_hex_info.   *)
(***************************************************************************)
\* line 473: flash_size + sizeof(*dhex) + strlen(file) + strlen(".save") + 1,
\* a sum of size_t (64 bits), not wrapped: h is its bits from 16 up
SaveSize(hex, iflash) ==
    MAdd(iflash.flash_size, U32(sizeof_hex_data_t + Len(hex.name) + Len(".save") + 1))

\* the int the sum is stored in keeps its low 32 bits: negative with bit 31 set
SaveSizeNegative(sz) == sz.h % Half >= Half \div 2
\* it has lost a bit beyond the 32: the int is smaller than the flash
SaveSizeWrapped(sz) == sz.h >= Half

\* killed: the int size wrapped to a small positive number, malloc(size)
\* grants a block smaller than the flash, and the flash_size bytes a
\* succeeding nvm_read_flash reads into it (line 487) run past its end: the
\* process is killed inside the read.  A failing read leaves the block
\* alone: it is freed and -4 returned, also when size is below
\* sizeof(*dhex) and the header of line 479 has overrun the block
updi_save(hex, iflash, r, enc) ==
    LET info == Call("updi_save", "nvm_get_flash_info", None, None, <<>>, r[1])
        rd == Call("updi_save", "nvm_read_flash", iflash.flash_start, iflash.flash_size, <<>>, r[2])
        dhex == [len |-> iflash.flash_size, offset |-> U32(0), addr_from |-> U32(0),
                 addr_to |-> Sub32(iflash.flash_size, U32(1))]
        new_file == hex.name \o ".save"
        mem == <<Malloc("save"), Free("save")>>
        size == SaveSize(hex, iflash)
    IN  IF r[1] # 0
        THEN [ret |-> -2, calls |-> <<info>>, mem |-> <<>>, saved |-> None, killed |-> FALSE]
        ELSE IF SaveSizeNegative(size)
        THEN [ret |-> -3, calls |-> <<info>>, mem |-> <<>>, saved |-> None, killed |-> FALSE]
        ELSE IF SaveSizeWrapped(size) /\ r[2] = 0
        THEN [ret |-> None, calls |-> <<info, rd>>, mem |-> <<Malloc("save")>>, saved |-> None,
              killed |-> TRUE]
        ELSE IF r[2] # 0
        THEN [ret |-> -4, calls |-> <<info, rd>>, mem |-> mem, saved |-> None, killed |-> FALSE]
        ELSE [ret |-> IF enc # 0 THEN -5 ELSE 0, calls |-> <<info, rd>>, mem |-> mem,
              saved |-> [name |-> new_file, dhex |-> dhex, enc |-> enc], killed |-> FALSE]

(***************************************************************************)
(* updi_read (src/cupdi.c:512-565).                                        *)
(***************************************************************************)
\* a length that is not clamped
ReadLen_NoClamp(len) == len

\* lines 532-536: the length of a direct read, at most 255
ReadLen(len) == IF len > UPDI_READ_STROKEN_LEN THEN UPDI_READ_STROKEN_LEN ELSE len

updi_read(cmd, r) ==
    LET tokens == str_split(cmd)
        i == Len(tokens.tok)
        address == strtol(tokens.tok[1], 16)
        len0 == strtol(tokens.tok[2], 10)
        len == ReadLen(len0)
        call == Call("updi_read", "nvm_read_mem", address, len, <<>>, r)
    IN  IF tokens = NULL THEN [ret |-> -2, calls |-> <<>>, mem |-> <<>>]
        ELSE IF i = 2
             THEN IF ~MallocOk(len) THEN [ret |-> -3, calls |-> <<>>, mem |-> <<>>]
                  ELSE [ret |-> IF r # 0 THEN -4 ELSE 0, calls |-> <<call>>,
                        mem |-> <<Malloc("buf"), Free("buf")>>]
        ELSE [ret |-> -4, calls |-> <<>>, mem |-> <<>>]

(***************************************************************************)
(* updi_write (src/cupdi.c:567-637).  r[k] is the code the k-th driver     *)
(* call of the invocation returns.  The loop state is                      *)
(* [i, j, buf, dirty, result, calls, ovf].                                 *)
(***************************************************************************)
\* the largest int
INT_MAX == 2147483647

\* a + b for an int a and 0 <= b <= INT_MAX, as the add instruction of the
\* build yields it: beyond INT_MAX (undefined in C) the sum less 2^32
IntAdd(a, b) ==
    IF a > INT_MAX - b THEN ((a - INT_MAX) - 1) + ((b - INT_MAX) - 1) ELSE a + b
\* the addition overflows the int
IntAddOverflows(a, b) == a > INT_MAX - b

\* the write of a full window that does not keep the driver's failure
WriteFull_IgnoreFailure(address, st, j, buf, r) ==
    LET rc == r[Len(st.calls) + 1]
        call == Call("updi_write", "nvm_write_mem", IntAdd(address, st.i - j - 1),
                     j + 1, SubSeq(buf, 1, j + 1), rc)
    IN  [st EXCEPT !.j = j, !.buf = buf, !.dirty = FALSE,
                   !.ovf = st.ovf \/ IntAddOverflows(address, st.i),
                   !.calls = Append(st.calls, call), !.i = st.i + 1]

\* lines 593-599: the write of a full window.  address + i - j - 1 is
\* summed from the left in int: address + i overflows first
WriteFull(address, st, j, buf, r) ==
    LET rc == r[Len(st.calls) + 1]
        call == Call("updi_write", "nvm_write_mem", IntAdd(address, st.i - j - 1),
                     j + 1, SubSeq(buf, 1, j + 1), rc)
    IN  [st EXCEPT !.j = j, !.buf = buf, !.dirty = FALSE,
                   !.result = IF rc # 0 THEN -3 ELSE 0,
                   !.ovf = st.ovf \/ IntAddOverflows(address, st.i),
                   !.calls = Append(st.calls, call), !.i = st.i + 1]

RECURSIVE WriteLoop(_, _, _, _)
WriteLoop(tok, address, r, st) ==
    IF st.i >= Len(tok) THEN st
    ELSE IF st.i = 0 \/ st.result # 0
    THEN WriteLoop(tok, address, r, [st EXCEPT !.i = st.i + 1])
    ELSE LET j == (st.i - 1) % UPDI_WRITE_STROKEN_LEN
             buf == [st.buf EXCEPT ![j + 1] = strtol(tok[st.i + 1], 16) % 256]
         IN  IF j + 1 = UPDI_WRITE_STROKEN_LEN
             THEN WriteLoop(tok, address, r, WriteFull(address, st, j, buf, r))
             ELSE WriteLoop(tok, address, r,
                            [st EXCEPT !.j = j, !.buf = buf, !.dirty = TRUE, !.i = st.i + 1])

\* the leftover write placed one byte too high
WriteLeft_OffByOne(address, st, r) ==
    LET rc == r[Len(st.calls) + 1]
        call == Call("updi_write", "nvm_write_mem", IntAdd(address, st.i - st.j - 1),
                     st.j + 1, SubSeq(st.buf, 1, st.j + 1), rc)
    IN  IF st.dirty /\ st.result = 0
        THEN [st EXCEPT !.result = IF rc # 0 THEN -4 ELSE 0,
                        !.ovf = st.ovf \/ IntAddOverflows(address, st.i),
                        !.calls = Append(st.calls, call)]
        ELSE st

\* lines 608-615: the write of the bytes left in the window
WriteLeft(address, st, r) ==
    LET rc == r[Len(st.calls) + 1]
        call == Call("updi_write", "nvm_write_mem", IntAdd(address, st.i - st.j - 2),
                     st.j + 1, SubSeq(st.buf, 1, st.j + 1), rc)
    IN  IF st.dirty /\ st.result = 0
        THEN [st EXCEPT !.result = IF rc # 0 THEN -4 ELSE 0,
                        !.ovf = st.ovf \/ IntAddOverflows(address, st.i),
                        !.calls = Append(st.calls, call)]
        ELSE st

RECURSIVE Readback(_, _, _, _)
Readback(address, r, st, j) ==
    IF ~(j < st.i - 1) THEN st
    ELSE LET len0 == st.i - j - 1
             len == IF len0 > UPDI_WRITE_STROKEN_LEN THEN UPDI_WRITE_STROKEN_LEN ELSE len0
             rc == r[Len(st.calls) + 1]
             call == Call("updi_write", "nvm_read_mem", IntAdd(address, j), len, <<>>, rc)
             st1 == [st EXCEPT !.calls = Append(st.calls, call),
                               !.ovf = st.ovf \/ IntAddOverflows(address, j)]
         IN  IF rc # 0 THEN [st1 EXCEPT !.result = -5]
             ELSE Readback(address, r, st1, j + UPDI_WRITE_STROKEN_LEN)

updi_write(cmd, r) ==
    LET tokens == str_split(cmd)
        address == strtol(tokens.tok[1], 16)
        st0 == [i |-> 0, j |-> 0, buf |-> [k \in 1..UPDI_WRITE_STROKEN_LEN |-> 0],
                dirty |-> FALSE, result |-> 0, calls |-> <<>>, ovf |-> FALSE]
        st1 == WriteLoop(tokens.tok, address, r, st0)
        st2 == WriteLeft(address, st1, r)
        st3 == IF st2.result = 0 THEN Readback(address, r, st2, 0) ELSE st2
    IN  IF tokens = NULL THEN [ret |-> -2, calls |-> <<>>, ovf |-> FALSE]
        ELSE [ret |-> st3.result, calls |-> st3.calls, ovf |-> st3.ovf]

(***************************************************************************)
(* main (src/cupdi.c:68-246), from line 136 on: the command line has been  *)
(* parsed and a device name and a port were given.                         *)
(* pc is the step main is at; "done": main has returned result; "killed":  *)
(* the process was killed by a signal inside a step and returns nothing.   *)
(***************************************************************************)
Session == [session |-> TRUE]

\* the device table (device/device.h, outside src/): get_chip_info finds the
\* entry of a name of the table and finds nothing for any other name
DeviceTable == {"tiny817"}
get_chip_info(name) == IF name \in DeviceTable THEN [name |-> name] ELSE NULL

\* the calls a helper issued, as entries of the log: each carries the handle
\* main passed to the helper
Issue(calls, h) == [k \in DOMAIN calls |-> [c |-> calls[k], h |-> h]]
MainCall(op, ret, h) == [c |-> Call("main", op, None, None, <<>>, ret), h |-> h]

TEST_BIT(f, b) == b \in f

NoSteps ==
    [updi_erase |-> None, updi_fuse |-> None, updi_flash |-> None, updi_save |-> None,
     updi_read |-> None, updi_write |-> None, verify_hex |-> None]

\* the device's answers to the verification read of an image: the image
\* itself, or the image with its first or its last byte changed
Flip(data, k) == [data EXCEPT ![k] = (data[k] + 1) % 256]
DeviceReads(data) == {data} \cup {Flip(data, k) : k \in {1, Len(data)} \cap DOMAIN data}

\* lines 136-155: the implied program flag, `unlock`, the device lookup
\* (an unknown device makes main return -2 at once, with no driver call and
\* not through the exit path), updi_nvm_init
Start ==
    /\ pc = "start"
    /\ flag' = IF file # NULL /\ flag = {} THEN {FLAG_PROG} ELSE flag
    /\ unlock' = (TEST_BIT(flag', FLAG_UNLOCK) \/ TEST_BIT(flag', FLAG_ERASE)
                    \/ TEST_BIT(flag', FLAG_PROG))
    /\ IF get_chip_info(dev_name) = NULL
       THEN /\ result' = -2
            /\ pc' = "done"
            /\ UNCHANGED <<nvm_ptr, log>>
       ELSE \E p \in {NULL, Session} :
               /\ nvm_ptr' = p
               /\ log' = Append(log, MainCall("updi_nvm_init",
                                              IF p = NULL THEN -1 ELSE 0, NULL))
               /\ IF p = NULL
                  THEN result' = -3 /\ pc' = "out"
                  ELSE result' = result /\ pc' = "device_info"
    /\ UNCHANGED <<dev_name, file, fuses, read, write, geo, steps, heap>>

\* DeviceInfo returning at once on a failure instead of taking the exit path
DeviceInfo_Return ==
    /\ pc = "device_info"
    /\ \E r \in DriverResults :
          /\ log' = Append(log, MainCall("nvm_get_device_info", r, nvm_ptr))
          /\ IF r # 0
             THEN result' = -4 /\ pc' = "done"
             ELSE result' = r /\ pc' = "progmode"
    /\ UNCHANGED <<dev_name, flag, file, fuses, read, write, unlock, nvm_ptr, geo, steps, heap>>

\* lines 157-162
DeviceInfo ==
    /\ pc = "device_info"
    /\ \E r \in DriverResults :
          /\ log' = Append(log, MainCall("nvm_get_device_info", r, nvm_ptr))
          /\ IF r # 0
             THEN result' = -4 /\ pc' = "out"
             ELSE result' = r /\ pc' = "progmode"
    /\ UNCHANGED <<dev_name, flag, file, fuses, read, write, unlock, nvm_ptr, geo, steps, heap>>

\* program mode entry that tries the entry again after the unlock
enter_progmode_Retry(r1, r2, r3, h) ==
    LET enter == [c |-> Call("main", "nvm_enter_progmode", None, None, <<>>, r1), h |-> h]
        unlk == [c |-> Call("main", "nvm_unlock_device", None, None, <<>>, r2), h |-> h]
        info == [c |-> Call("main", "nvm_get_device_info", None, None, <<>>, r3), h |-> h]
    IN  IF r1 # 0 /\ r2 # 0 THEN [result |-> -5, calls |-> <<enter, unlk>>]
        ELSE [result |-> IF r3 # 0 THEN -6 ELSE r3,
              calls |-> IF r1 # 0 THEN <<enter, unlk, enter, info>> ELSE <<enter, info>>]

\* lines 166-182: program mode entry, with the codes of nvm_enter_progmode,
\* nvm_unlock_device and nvm_get_device_info; the value left in `result`
\* and the calls made
enter_progmode(r1, r2, r3, h) ==
    LET enter == MainCall("nvm_enter_progmode", r1, h)
        unlk == MainCall("nvm_unlock_device", r2, h)
        info == MainCall("nvm_get_device_info", r3, h)
    IN  IF r1 # 0 /\ r2 # 0 THEN [result |-> -5, calls |-> <<enter, unlk>>]
        ELSE [result |-> IF r3 # 0 THEN -6 ELSE r3,
              calls |-> IF r1 # 0 THEN <<enter, unlk, info>> ELSE <<enter, info>>]

\* lines 164-183
ProgMode ==
    /\ pc = "progmode"
    /\ IF unlock
       THEN \E r1, r2, r3 \in DriverResults :
            \E o \in {enter_progmode(r1, r2, r3, nvm_ptr)} :
                   /\ log' = log \o o.calls
                   /\ result' = o.result
                   /\ pc' = IF o.result # 0 THEN "out" ELSE "erase"
       ELSE /\ pc' = "erase"
            /\ UNCHANGED <<log, result>>
    /\ UNCHANGED <<dev_name, flag, file, fuses, read, write, unlock, nvm_ptr, geo, steps, heap>>

\* the erase step handing the helper's own code on to the caller
Erase_RawCode ==
    /\ pc = "erase"
    /\ IF TEST_BIT(flag, FLAG_ERASE)
       THEN \E r \in DriverResults :
               \E o \in {updi_erase(r)} :
                   /\ log' = log \o Issue(o.calls, nvm_ptr)
                   /\ steps' = [steps EXCEPT !.updi_erase = [ret |-> o.ret]]
                   /\ result' = o.ret
                   /\ pc' = IF o.ret # 0 THEN "out" ELSE "fuse"
       ELSE /\ pc' = "fuse"
            /\ UNCHANGED <<log, steps, result>>
    /\ UNCHANGED <<dev_name, flag, file, fuses, read, write, unlock, nvm_ptr, geo, heap>>

\* lines 185-192
Erase ==
    /\ pc = "erase"
    /\ IF TEST_BIT(flag, FLAG_ERASE)
       THEN \E r \in DriverResults :
               \E o \in {updi_erase(r)} :
                   /\ log' = log \o Issue(o.calls, nvm_ptr)
                   /\ steps' = [steps EXCEPT !.updi_erase = [ret |-> o.ret]]
                   /\ result' = IF o.ret # 0 THEN -7 ELSE o.ret
                   /\ pc' = IF o.ret # 0 THEN "out" ELSE "fuse"
       ELSE /\ pc' = "fuse"
            /\ UNCHANGED <<log, steps, result>>
    /\ UNCHANGED <<dev_name, flag, file, fuses, read, write, unlock, nvm_ptr, geo, heap>>

\* the fuse step with the erase block placed after the fuse write
Fuse_EraseAfter ==
    /\ pc = "fuse"
    /\ IF fuses # NULL
       THEN \E r \in DriverResults :
               \E o \in {updi_fuse(fuses, r)} :
                   /\ log' = log \o Issue(o.calls, nvm_ptr)
                               \o (IF TEST_BIT(flag, FLAG_ERASE) /\ o.ret = 0
                                   THEN Issue(updi_erase(0).calls, nvm_ptr) ELSE <<>>)
                   /\ steps' = [steps EXCEPT !.updi_fuse = [ret |-> o.ret]]
                   /\ result' = IF o.ret # 0 THEN -8 ELSE o.ret
                   /\ pc' = IF o.ret # 0 THEN "out" ELSE "flash"
       ELSE /\ pc' = "flash"
            /\ UNCHANGED <<log, steps, result>>
    /\ UNCHANGED <<dev_name, flag, file, fuses, read, write, unlock, nvm_ptr, geo, heap>>

\* lines 194-201
Fuse ==
    /\ pc = "fuse"
    /\ IF fuses # NULL
       THEN \E r \in DriverResults :
               \E o \in {updi_fuse(fuses, r)} :
                   /\ log' = log \o Issue(o.calls, nvm_ptr)
                   /\ steps' = [steps EXCEPT !.updi_fuse = [ret |-> o.ret]]
                   /\ result' = IF o.ret # 0 THEN -8 ELSE o.ret
                   /\ pc' = IF o.ret # 0 THEN "out" ELSE "flash"
       ELSE /\ pc' = "flash"
            /\ UNCHANGED <<log, steps, result>>
    /\ UNCHANGED <<dev_name, flag, file, fuses, read, write, unlock, nvm_ptr, geo, heap>>

\* the return codes the driver calls of one helper invocation can give: the
\* calls before the f-th succeed, the f-th fails with code c (f = n + 1: none
\* fails), and the calls after it, were they made, all fail too or all succeed
RetSeqs(n) ==
    {[k \in 1..n |-> IF k < f THEN 0 ELSE IF k = f \/ later THEN c ELSE 0] :
        f \in 1..(n + 1), c \in DriverFail, later \in BOOLEAN}

\* an upper limit of the driver calls of updi_write(cmd), to size its inputs
WriteCallBudget(cmd) ==
    IF cmd.split = NULL THEN 1
    ELSE 2 * ((Len(cmd.split.tok) + UPDI_WRITE_STROKEN_LEN) \div UPDI_WRITE_STROKEN_LEN) + 1

\* lines 203-211
Flash ==
    /\ pc = "flash"
    /\ IF file # NULL /\ (TEST_BIT(flag, FLAG_PROG) \/ TEST_BIT(flag, FLAG_CHECK))
       THEN \E ld \in {load_hex(file, geo).dhex} :
            \E rdata \in (IF ld = NULL THEN {<<>>} ELSE DeviceReads(ld.data)) :
            \E r \in RetSeqs(4) :
            \E o \in {updi_flash(file, TEST_BIT(flag, FLAG_PROG), geo, r, rdata)} :
                   /\ log' = log \o Issue(o.calls, nvm_ptr)
                   /\ heap' = heap \o o.mem
                   /\ IF o.killed
                      THEN /\ pc' = "killed"
                           /\ UNCHANGED <<steps, result>>
                      ELSE /\ steps' = [steps EXCEPT
                                  !.updi_flash = [ret |-> o.ret, dhex |-> o.dhex],
                                  !.verify_hex = IF o.verify = None THEN None
                                                 ELSE [ret |-> o.verify.ret,
                                                       diag |-> o.verify.diag,
                                                       dhex |-> o.dhex,
                                                       rdata |-> rdata]]
                           /\ result' = IF o.ret # 0 THEN -9 ELSE o.ret
                           /\ pc' = IF o.ret # 0 THEN "out" ELSE "save"
       ELSE /\ pc' = "save"
            /\ UNCHANGED <<log, steps, heap, result>>
    /\ UNCHANGED <<dev_name, flag, file, fuses, read, write, unlock, nvm_ptr, geo>>

\* lines 213-220
Save ==
    /\ pc = "save"
    /\ IF file # NULL /\ TEST_BIT(flag, FLAG_SAVE)
       THEN \E r \in RetSeqs(2), enc \in DriverResults :
               \E o \in {updi_save(file, geo, r, enc)} :
                   /\ log' = log \o Issue(o.calls, nvm_ptr)
                   /\ heap' = heap \o o.mem
                   /\ IF o.killed
                      THEN /\ pc' = "killed"
                           /\ UNCHANGED <<steps, result>>
                      ELSE /\ steps' = [steps EXCEPT
                                           !.updi_save = [ret |-> o.ret, saved |-> o.saved]]
                           /\ result' = IF o.ret # 0 THEN -10 ELSE o.ret
                           /\ pc' = IF o.ret # 0 THEN "out" ELSE "read"
       ELSE /\ pc' = "read"
            /\ UNCHANGED <<log, steps, heap, result>>
    /\ UNCHANGED <<dev_name, flag, file, fuses, read, write, unlock, nvm_ptr, geo>>

\* lines 223-230
Read ==
    /\ pc = "read"
    /\ IF read # NULL
       THEN \E r \in DriverResults :
               \E o \in {updi_read(read, r)} :
                   /\ log' = log \o Issue(o.calls, nvm_ptr)
                   /\ steps' = [steps EXCEPT !.updi_read = [ret |-> o.ret]]
                   /\ heap' = heap \o o.mem
                   /\ result' = IF o.ret # 0 THEN -11 ELSE o.ret
                   /\ pc' = IF o.ret # 0 THEN "out" ELSE "write"
       ELSE /\ pc' = "write"
            /\ UNCHANGED <<log, steps, heap, result>>
    /\ UNCHANGED <<dev_name, flag, file, fuses, read, write, unlock, nvm_ptr, geo>>

\* lines 232-239
Write ==
    /\ pc = "write"
    /\ IF write # NULL
       THEN \E r \in RetSeqs(WriteCallBudget(write)) :
               \E o \in {updi_write(write, r)} :
                   /\ log' = log \o Issue(o.calls, nvm_ptr)
                   /\ steps' = [steps EXCEPT !.updi_write = [ret |-> o.ret, ovf |-> o.ovf]]
                   /\ result' = IF o.ret # 0 THEN -12 ELSE o.ret
                   /\ pc' = "out"
       ELSE /\ pc' = "out"
            /\ UNCHANGED <<log, steps, result>>
    /\ UNCHANGED <<dev_name, flag, file, fuses, read, write, unlock, nvm_ptr, geo, heap>>

\* lines 241-245: the shared exit path
Out ==
    /\ pc = "out"
    /\ log' = log \o <<MainCall("nvm_leave_progmode", 0, nvm_ptr),
                       MainCall("updi_nvm_deinit", 0, nvm_ptr)>>
    /\ pc' = "done"
    /\ UNCHANGED <<dev_name, flag, file, fuses, read, write, unlock, nvm_ptr, result, geo, steps, heap>>

(***************************************************************************)
(* Inputs.                                                                 *)
(***************************************************************************)
Geometry(start, size, pagesize) ==
    [flash_start |-> start, flash_size |-> size, flash_pagesize |-> pagesize]

HexFile(name, a, b, info, load) ==
    [name |-> name, addr_from |-> a, addr_to |-> b, info |-> info, load |-> load]

Cmd(tok) == [split |-> [tok |-> tok]]
\* a command string str_split cannot split
CmdUnsplit == [split |-> NULL]

HexDigits == <<"0", "1", "2", "3", "4", "5", "6", "7", "8", "9", "a", "b", "c", "d", "e", "f">>
ByteTok(v) == <<HexDigits[(v \div 16) + 1], HexDigits[(v % 16) + 1]>>
\* the direct write command "<addr>;b1;...;bn" with byte tokens of pattern p
WriteCmd(addr, n, p) == Cmd(<<addr>> \o [k \in 1..n |-> ByteTok((k * p + 11) % 256)])

\* a device with 16 bytes of flash in pages of 4 at 0x8000
SmallGeo == Geometry(U32(32768), U32(16), U32(4))

\* devices with 2 GiB of flash at 0x8000, and with 4 GiB less 4 and less 16
\* bytes at 0 (the int size of updi_save wraps to 39 and to 27), in pages
\* of 4
BigGeo == Geometry(U32(32768), [h |-> Half \div 2, l |-> 0], U32(4))
HugeGeo == Geometry(U32(0), [h |-> Half - 1, l |-> Half - 4], U32(4))
HugeGeo16 == Geometry(U32(0), [h |-> Half - 1, l |-> Half - 16], U32(4))
LargeGeos == {BigGeo, HugeGeo, HugeGeo16}

MainFile == HexFile("a.hex", U32(1), U32(5), 0, 0)     \* two pages, addressed from zero
MainFiles ==
    { MainFile,
      HexFile("b.hex", U32(0), U32(17), 0, 0),     \* beyond the flash
      HexFile("c.hex", U32(1), U32(5), 0, -1),     \* its records cannot be loaded
      HexFile("v.hex", U32(0), U32Neg(8), 0, 0) }  \* records up to 0xfffffff8

MainFuses ==
    { Cmd(<<<<"3">>>>),
      Cmd(<<<<"3">>, <<"0", "x", "a", "a">>>>),
      Cmd(<<<<"3">>, <<"0", "x", "a", "a">>, <<"1">>>>) }

MainReads ==
    { Cmd(<<<<"1", "0", "0", "0">>>>),
      Cmd(<<<<"1", "0", "0", "0">>, <<"3", "0", "0">>>>) }

MainWrites == { WriteCmd(<<"2", "0", "0", "0">>, 2, 37) }
\* device names: one of the table, one that is not
DevNames == {"tiny817", "unknown"}
\* 17 bytes at 0x7ffffff0: the second window starts beyond INT_MAX
OverflowWrites == { WriteCmd(<<"7", "f", "f", "f", "f", "f", "f", "0">>, 17, 37) }

Init ==
    /\ pc = "start"
    /\ dev_name \in DevNames
    /\ flag \in SUBSET Flags
    /\ \/ /\ geo = SmallGeo
          /\ file \in {NULL} \cup MainFiles
          /\ fuses \in {NULL} \cup MainFuses
          /\ read \in {NULL} \cup MainReads
          /\ write \in {NULL} \cup MainWrites
       \/ /\ geo \in LargeGeos
          /\ file = MainFile
          /\ fuses = NULL /\ read = NULL /\ write = NULL
       \/ /\ geo = SmallGeo
          /\ file = NULL /\ fuses = NULL /\ read = NULL
          /\ write \in OverflowWrites
    /\ unlock = FALSE
    /\ nvm_ptr = NULL
    /\ result = 0
    /\ log = <<>>
    /\ steps = NoSteps
    /\ heap = <<>>

Next ==
    \/ Start
    \/ DeviceInfo
    \/ ProgMode
    \/ Erase
    \/ Fuse
    \/ Flash
    \/ Save
    \/ Read
    \/ Write
    \/ Out

Spec == Init /\ [][Next]_vars

(***************************************************************************)
(* Specifications of single steps, over wider inputs than a whole run can  *)
(* carry.  Each starts main at the step, in the state a run without        *)
(* earlier requests has reached by then, and takes that step.              *)
(***************************************************************************)
\* the log of a run that has created the session, queried the device and,
\* with u, entered program mode
PrefixLog(u) ==
    <<MainCall("updi_nvm_init", 0, NULL), MainCall("nvm_get_device_info", 0, Session)>>
    \o (IF u THEN <<MainCall("nvm_enter_progmode", 0, Session),
                    MainCall("nvm_get_device_info", 0, Session)>>
             ELSE <<>>)

AtStep(p, f, u) ==
    /\ pc = p
    /\ dev_name = "tiny817"
    /\ flag = f
    /\ unlock = u
    /\ nvm_ptr = Session
    /\ result = 0
    /\ log = PrefixLog(u)
    /\ steps = NoSteps
    /\ heap = <<>>

\* ---- updi_flash and load_hex ----
\* longest record span (last address - first address) of the hex files
MaxSpan == 9

\* a device with 32 bytes of flash in pages of 8 at address 0
ZeroGeo == Geometry(U32(0), U32(32), U32(8))
\* ATtiny817: 8 KiB of flash in pages of 64 bytes at 0x8000
Tiny817 == Geometry(U32(32768), U32(8192), U32(64))
FlashGeos == {SmallGeo, ZeroGeo, Tiny817}

\* first record addresses around the page and flash boundaries of g
SpanBases(g) ==
    LET ps == ToInt(g.flash_pagesize)
        size == ToInt(g.flash_size)
        start == ToInt(g.flash_start)
    IN  {0, 1, ps - 1, ps, size - ps, size - 1, size,
         start, start + 1, start + ps, start + size - ps, start + size - 1, start + size}

\* the hex files: short spans from those bases, and spans from the first
\* page to the last bytes (w.hex) and to the last pages but one (v.hex) of
\* the 32-bit address space
FlashFiles(g) ==
    {HexFile("f.hex", U32(a), U32(a + d), 0, ld) :
        a \in SpanBases(g), d \in 0..MaxSpan, ld \in {0, -1}}
    \cup {HexFile("w.hex", U32(a), U32Neg(e), 0, 0) : a \in {0, 1}, e \in {1, 2}}
    \cup {HexFile("v.hex", U32(a), U32Neg(e), 0, ld) : a \in {0, 1}, e \in {5, 8}, ld \in {0, -1}}
    \cup {HexFile("x.hex", U32(0), U32(0), -1, 0)}

InitFlash ==
    /\ geo \in FlashGeos
    /\ file \in FlashFiles(geo)
    /\ fuses = NULL /\ read = NULL /\ write = NULL
    /\ \E f \in {{FLAG_PROG}, {FLAG_CHECK}, {FLAG_PROG, FLAG_CHECK}} :
          AtStep("flash", f, TEST_BIT(f, FLAG_PROG))

NextFlash == Flash

SpecFlash == InitFlash /\ [][NextFlash]_vars

\* ---- verify_hex ----
VerifyBytes == {0, 255}

VerifyImages ==
    UNION { { [addr_from |-> U32(32768), addr_to |-> U32(32768 + n - 1), len |-> U32(n),
               offset |-> U32(0), data |-> d] : d \in [1..n -> VerifyBytes] }
            : n \in 0..MaxVerifyLen }

\* a call of verify_hex on an image, the device answering with any bytes
VerifyCall ==
    /\ pc = "verify_hex"
    /\ \E dhex \in VerifyImages :
       \E rdata \in [1..ToInt(dhex.len) -> VerifyBytes], r \in DriverResults :
       \E o \in {verify_hex(dhex, r, rdata)} :
          /\ log' = log \o Issue(o.calls, nvm_ptr)
          /\ steps' = [steps EXCEPT !.verify_hex =
                          [ret |-> o.ret, diag |-> o.diag, dhex |-> dhex, rdata |-> rdata]]
          /\ heap' = heap \o o.mem
    /\ pc' = "verified"
    /\ UNCHANGED <<dev_name, flag, file, fuses, read, write, unlock, nvm_ptr, result, geo>>

InitVerify ==
    /\ geo = SmallGeo
    /\ file = NULL /\ fuses = NULL /\ read = NULL /\ write = NULL
    /\ AtStep("verify_hex", {FLAG_CHECK}, FALSE)

NextVerify == VerifyCall

SpecVerify == InitVerify /\ [][NextVerify]_vars

\* ---- updi_write ----
WriteAddrs == {<<"2", "0", "0", "0">>, <<"3", "F", "0", "0">>, <<"\r", "2", "0", "0", "0">>,
               <<"1", "0", "0", "0", "0", "2", "0", "0", "0">>,
               <<"7", "f", "f", "f", "f", "f", "e", "f">>,
               <<"7", "f", "f", "f", "f", "f", "f", "0">>}

WriteCmds ==
    {WriteCmd(a, n, 37) : a \in WriteAddrs, n \in 0..MaxBytes}
    \cup {Cmd(<<>>), CmdUnsplit}

InitWrite ==
    /\ geo = SmallGeo
    /\ file = NULL /\ fuses = NULL /\ read = NULL
    /\ write \in WriteCmds
    /\ AtStep("write", {}, FALSE)

NextWrite == Write

SpecWrite == InitWrite /\ [][NextWrite]_vars

\* ---- updi_read ----
ReadAddrs == {<<"1", "0", "0", "0">>, <<"0", "x", "3", "f", "0", "0">>, <<"F", "F">>}
ReadLens == {<<"-", "1">>, <<"0">>, <<"1">>, <<"8">>, <<"2", "5", "5">>,
             <<"2", "5", "6">>, <<"3", "0", "0">>, <<"\t", "8">>,
             <<"4", "2", "9", "4", "9", "6", "7", "2", "9", "7">>}

ReadCmds ==
    {Cmd(<<a, n>>) : a \in ReadAddrs, n \in ReadLens}
    \cup {Cmd(<<a>>) : a \in ReadAddrs}
    \cup {Cmd(<<a, n, <<"1">>>>) : a \in ReadAddrs, n \in ReadLens}
    \cup {Cmd(<<>>), CmdUnsplit}

InitRead ==
    /\ geo = SmallGeo
    /\ file = NULL /\ fuses = NULL /\ write = NULL
    /\ read \in ReadCmds
    /\ AtStep("read", {}, FALSE)

NextRead == Read

SpecRead == InitRead /\ [][NextRead]_vars

\* ---- updi_fuse ----
FuseIdxToks == {<<"0">>, <<"3">>, <<"1", "0">>}
FuseValToks == {<<"0", "x", "a", "a">>, <<"A", "A">>, <<"a", "A">>, <<"1", "f", "f">>,
                <<"0", "x", "1", "0", "0">>, <<"0">>, <<"-", "1">>, <<"\n", "A", "A">>,
                <<"f", "f", "f", "f", "f", "f", "f", "f">>}

FuseCmds ==
    {Cmd(<<i, v>>) : i \in FuseIdxToks, v \in FuseValToks}
    \cup {Cmd(<<i>>) : i \in FuseIdxToks}
    \cup {Cmd(<<i, v, <<"1">>>>) : i \in FuseIdxToks, v \in FuseValToks}
    \cup {Cmd(<<>>), CmdUnsplit}

InitFuse ==
    /\ geo = SmallGeo
    /\ file = NULL /\ read = NULL /\ write = NULL
    /\ fuses \in FuseCmds
    /\ \E f \in {{}, {FLAG_UNLOCK}} : AtStep("fuse", f, TEST_BIT(f, FLAG_UNLOCK))

NextFuse == Fuse

SpecFuse == InitFuse /\ [][NextFuse]_vars

(***************************************************************************)
(* Properties.                                                             *)
(***************************************************************************)
Op(k) == log[k].c.op
Ret(k) == log[k].c.ret
IdxOf(ops) == {k \in DOMAIN log : Op(k) \in ops}
CountOp(op) == Cardinality(IdxOf({op}))

CleanupOps == {"nvm_leave_progmode", "updi_nvm_deinit"}
\* the driver calls that touch the device
TouchOps ==
    {"nvm_get_device_info", "nvm_enter_progmode", "nvm_unlock_device", "nvm_chip_erase",
     "nvm_write_fuse", "nvm_read_flash", "nvm_write_flash", "nvm_read_mem", "nvm_write_mem"}
OnlyCleanupAfter(k) == \A j \in DOMAIN log : j > k => Op(j) \in CleanupOps

UnlockRequested == flag \cap {FLAG_UNLOCK, FLAG_ERASE, FLAG_PROG} # {}

\* C1: once updi_nvm_init has created the session, the run ends, whatever
\* succeeded or failed, with exactly one nvm_leave_progmode followed by
\* exactly one updi_nvm_deinit and nothing after them; before the end neither
\* has been called.
C1_CleanupExactlyOnce ==
    nvm_ptr # NULL =>
        /\ pc = "done" =>
              /\ Len(log) >= 2
              /\ Op(Len(log) - 1) = "nvm_leave_progmode"
              /\ Op(Len(log)) = "updi_nvm_deinit"
              /\ CountOp("nvm_leave_progmode") = 1
              /\ CountOp("updi_nvm_deinit") = 1
        /\ pc # "done" =>
              /\ CountOp("nvm_leave_progmode") = 0
              /\ CountOp("updi_nvm_deinit") = 0

\* a run that ended through the exit path after updi_flash failed
C1_Witness ==
    /\ pc = "done" /\ nvm_ptr = Session /\ result = -9
    /\ CountOp("nvm_leave_progmode") = 1

\* the driver calls that failed, in the order of the log
FailedCalls == {k \in DOMAIN log : Op(k) # "updi_nvm_init" /\ Ret(k) # 0}
\* those that are not a program mode entry
FatalCalls == {k \in FailedCalls : Op(k) # "nvm_enter_progmode"}
First(S) == CHOOSE k \in S : \A j \in S : k <= j

\* the place of a log entry, and of a helper, in the order of main's steps
RankOfHelper(by) ==
    CASE by = "updi_erase" -> 3 [] by = "updi_fuse" -> 4
      [] by \in {"updi_flash", "verify_hex"} -> 5 [] by = "updi_save" -> 6
      [] by = "updi_read" -> 7 [] by = "updi_write" -> 8
RankOfEntry(k) ==
    IF log[k].c.by # "main" THEN RankOfHelper(log[k].c.by)
    ELSE IF Op(k) \in CleanupOps THEN 9
    ELSE IF Op(k) \in {"nvm_enter_progmode", "nvm_unlock_device"} THEN 2
    ELSE IF Op(k) = "updi_nvm_init" THEN 0
    ELSE IF k = 2 THEN 1 ELSE 2
Helpers == {"updi_erase", "updi_fuse", "updi_flash", "updi_save", "updi_read", "updi_write"}
HelperFailed(hp) == steps[hp] # None /\ steps[hp].ret # 0
\* a helper that returned non-zero is followed by no call of a later step
NoStepAfterFailedHelper ==
    \A hp \in Helpers : HelperFailed(hp) =>
        \A k \in DOMAIN log : RankOfEntry(k) > RankOfHelper(hp) => Op(k) \in CleanupOps

\* C2 as claimed: after the first failed driver call, or a helper that
\* returned non-zero, only cleanup calls follow, but for one unlock attempt
\* right after a failed program mode entry.
C2_Original ==
    /\ FailedCalls # {} =>
          \A j \in DOMAIN log : j > First(FailedCalls) =>
              \/ Op(j) \in CleanupOps
              \/ /\ j = First(FailedCalls) + 1
                 /\ Op(First(FailedCalls)) = "nvm_enter_progmode"
                 /\ Op(j) = "nvm_unlock_device"
    /\ NoStepAfterFailedHelper

\* C2 (amended): a failed program mode entry is not yet a failed step: it is
\* followed at once by the one unlock attempt of the run, and when that
\* succeeds the run goes on.  After the first failed driver call other than
\* a program mode entry, or a helper that returned non-zero, no call of a
\* later step is issued: only the cleanup calls follow.
C2_AbortAfterFailure ==
    /\ FatalCalls # {} => OnlyCleanupAfter(First(FatalCalls))
    /\ \A k \in FailedCalls : Op(k) = "nvm_enter_progmode" =>
          /\ k + 1 \in DOMAIN log
          /\ Op(k + 1) = "nvm_unlock_device"
    /\ CountOp("nvm_unlock_device") <= 1
    /\ NoStepAfterFailedHelper

\* a run whose entry failed and was recovered by the unlock, and whose chip
\* erase then failed with a fuse write still requested
C2_Witness ==
    /\ pc = "done" /\ result = -7 /\ fuses # NULL
    /\ \E k \in IdxOf({"nvm_enter_progmode"}) : Ret(k) # 0 /\ Ret(k + 1) = 0

\* the run raised a parse error: a fuse spec or a read command without
\* exactly two tokens, or a hex image beyond the flash
ParseErrorRaised ==
    \/ /\ steps.updi_fuse # None /\ steps.updi_fuse.ret = -4
    \/ /\ steps.updi_read # None /\ steps.updi_read.ret = -4
       /\ Len(read.split.tok) # 2
    \/ /\ steps.updi_flash # None /\ steps.updi_flash.ret = -2
       /\ file.info = 0 /\ file.load = 0

\* C3: when a parse error is raised (fuse spec, read command, hex bounds),
\* no driver call that touches the device has been issued in the run.
C3_ParseBeforeIO ==
    ParseErrorRaised => \A k \in DOMAIN log : Op(k) \notin TouchOps

\* C4: program mode entry is attempted only if unlock, erase or program was
\* requested, and then once; the unlock is attempted at most once and only
\* right after a failed entry; a successful entry or unlock is followed by
\* the device info query; a failed unlock or a failed re-query ends the run
\* (codes -5, -6) with only the cleanup calls after it.
C4_ProgModeOnce ==
    LET E == IdxOf({"nvm_enter_progmode"})
        U == IdxOf({"nvm_unlock_device"})
        past == pc \notin {"start", "device_info", "progmode"}
        infoOk == Len(log) >= 2 /\ Op(2) = "nvm_get_device_info" /\ Ret(2) = 0
    IN  /\ Cardinality(E) <= 1
        /\ Cardinality(U) <= 1
        /\ E # {} => UnlockRequested
        /\ (past /\ infoOk /\ UnlockRequested) => Cardinality(E) = 1
        /\ \A u \in U : (u - 1) \in E /\ Ret(u - 1) # 0
        /\ \A e \in E : Ret(e) # 0 => (e + 1) \in U
        /\ \A k \in E \cup U : Ret(k) = 0 =>
              /\ k + 1 \in DOMAIN log
              /\ Op(k + 1) = "nvm_get_device_info"
              /\ Ret(k + 1) # 0 =>
                    /\ OnlyCleanupAfter(k + 1)
                    /\ pc = "done" => result = -6
        /\ \A u \in U : Ret(u) # 0 =>
              /\ OnlyCleanupAfter(u)
              /\ pc = "done" => result = -5

\* a run whose entry failed, whose unlock succeeded and whose re-query failed
C4_Witness ==
    /\ pc = "done" /\ result = -6
    /\ \E k \in IdxOf({"nvm_unlock_device"}) : Ret(k) = 0 /\ Ret(k - 1) # 0

\* the driver calls of the program/check step, in order
IsFlashCall(e) == e.c.by \in {"updi_flash", "verify_hex"}
FlashOps == LET cs == SelectSeq(log, IsFlashCall) IN [k \in DOMAIN cs |-> cs[k].c.op]

\* C5: with a file and check requested and the program bit not set, the
\* program/check step issues no chip erase and no flash write: only the
\* geometry query and, once the image is loaded, one flash read.
C5_CheckOnlyNoMutation ==
    (file # NULL /\ FLAG_CHECK \in flag /\ FLAG_PROG \notin flag /\ steps.updi_flash # None) =>
        /\ FlashOps \in {<<"nvm_get_flash_info">>, <<"nvm_get_flash_info", "nvm_read_flash">>}
        /\ (steps.updi_flash.dhex \notin {None, NULL}) =>
              FlashOps = <<"nvm_get_flash_info", "nvm_read_flash">>

\* a check-only step that loaded the image and verified it
C5_Witness ==
    /\ file # NULL /\ FLAG_CHECK \in flag /\ FLAG_PROG \notin flag
    /\ steps.updi_flash # None /\ steps.updi_flash.ret = 0
    /\ FlashOps = <<"nvm_get_flash_info", "nvm_read_flash">>

\* ---- load_hex ----
\* load_hex was called on a readable file whose loading call succeeds
LoadRan ==
    /\ steps.updi_flash # None /\ steps.updi_flash.dhex # None
    /\ file.info = 0 /\ file.load = 0
PageMask == Sub32(geo.flash_pagesize, U32(1))
\* record addresses below flash_start are taken as offsets into the flash
Translates == Lt(And32(file.addr_from, Not32(PageMask)), geo.flash_start)
Tr(x) == IF Translates THEN MAdd(x, geo.flash_start) ELSE x
\* flash_start + flash_size, not wrapped
FlashEnd == MAdd(geo.flash_start, geo.flash_size)
PageAligned(x) == x.l % ToInt(geo.flash_pagesize) = 0
\* the record span lies within the flash
SpanInBounds ==
    /\ Le(file.addr_from, file.addr_to)
    /\ Le(geo.flash_start, Tr(file.addr_from))
    /\ Lt(Tr(file.addr_to), FlashEnd)

\* C6: for a record span [a, b] within the flash, load_hex returns an image
\* with addr_from at or below the translated a and addr_to at or above the
\* translated b, addr_from and addr_to + 1 multiples of the page size, and
\* [addr_from, addr_to] inside [flash_start, flash_start + flash_size).
C6_AlignedCoverage ==
    (LoadRan /\ SpanInBounds) =>
        /\ steps.updi_flash.dhex # NULL
        /\ Le(steps.updi_flash.dhex.addr_from, Tr(file.addr_from))
        /\ Le(Tr(file.addr_to), steps.updi_flash.dhex.addr_to)
        /\ PageAligned(steps.updi_flash.dhex.addr_from)
        /\ PageAligned(MAdd(steps.updi_flash.dhex.addr_to, U32(1)))
        /\ Le(geo.flash_start, steps.updi_flash.dhex.addr_from)
        /\ Lt(steps.updi_flash.dhex.addr_to, FlashEnd)

\* the aligned, translated last address of the span as lines 319 and 325
\* compute it, in unbounded arithmetic: no addition wraps
PageFloor(x) == [h |-> x.h, l |-> x.l - (x.l % ToInt(geo.flash_pagesize))]
UnwrappedTo == Tr(MSub(PageFloor(MAdd(file.addr_to, PageMask)), U32(1)))

\* C7: load_hex returns no image whenever the translated addr_to is at or
\* beyond flash_start + flash_size, also when the additions of the page mask
\* or of flash_start wrap around at 32 bits; and when it returns no image,
\* updi_flash issues no chip erase, no flash write and no flash read.
C7_RejectsOutOfRange ==
    LoadRan =>
        /\ ~Lt(UnwrappedTo, FlashEnd) => steps.updi_flash.dhex = NULL
        /\ steps.updi_flash.dhex = NULL => FlashOps = <<"nvm_get_flash_info">>

\* ---- verify_hex ----
IsVerifyCall(e) == e.c.by = "verify_hex"
VerifyCalls == SelectSeq(log, IsVerifyCall)
\* the offsets at which the bytes read differ from the image
DiffOffsets ==
    {k \in 0..(ToInt(steps.verify_hex.dhex.len) - 1) :
        steps.verify_hex.dhex.data[k + 1] # steps.verify_hex.rdata[k + 1]}

\* C8: verify_hex issues exactly one flash read, of image.len bytes at
\* image.addr_from; when the read succeeds it returns 0 if and only if the
\* bytes read equal the image at every offset, and otherwise returns the
\* mismatch result and reports the smallest differing offset; a failed read
\* is returned as a result that is neither success nor the mismatch result.
C8_VerifyExact ==
    steps.verify_hex # None =>
        /\ Len(VerifyCalls) = 1
        /\ VerifyCalls[1].c.op = "nvm_read_flash"
        /\ VerifyCalls[1].c.a = steps.verify_hex.dhex.addr_from
        /\ VerifyCalls[1].c.n = steps.verify_hex.dhex.len
        /\ VerifyCalls[1].c.ret = 0 =>
              /\ steps.verify_hex.ret = 0 <=> DiffOffsets = {}
              /\ DiffOffsets # {} =>
                    /\ steps.verify_hex.ret = -4
                    /\ steps.verify_hex.diag = First(DiffOffsets)
        /\ VerifyCalls[1].c.ret # 0 => steps.verify_hex.ret \notin {0, -4}

\* an image of three bytes whose last byte alone differs on the device
C8_Witness ==
    /\ steps.verify_hex # None
    /\ steps.verify_hex.ret = -4 /\ steps.verify_hex.diag = 2
    /\ DiffOffsets = {2}

\* ---- updi_write ----
IsWriteCall(e) == e.c.by = "updi_write"
WriteCalls == SelectSeq(log, IsWriteCall)
\* the number of byte tokens, the address (the number of the first token,
\* converted to int) and the k-th byte (k from 0) of the write command
WriteN == Len(write.split.tok) - 1
\* 0x100002000 converted to int is 0x2000
WriteAddress ==
    CASE write.split.tok[1] \in {<<"2", "0", "0", "0">>, <<"\r", "2", "0", "0", "0">>,
                                 <<"1", "0", "0", "0", "0", "2", "0", "0", "0">>} -> 8192
      [] write.split.tok[1] = <<"3", "F", "0", "0">> -> 16128
      [] write.split.tok[1] = <<"7", "f", "f", "f", "f", "f", "e", "f">> -> 2147483631
      [] write.split.tok[1] = <<"7", "f", "f", "f", "f", "f", "f", "0">> -> 2147483632
\* a is address + 16k; no int is, once the sum exceeds 2^31 - 1
IsAddressPlus(a, k) ==
    WriteAddress <= 2147483647 - 16 * k /\ a = WriteAddress + 16 * k
\* a is address + 16k, less 2^32 once the sum exceeds 2^31 - 1
IsWrappedAddressPlus(a, k) ==
    IF WriteAddress <= 2147483647 - 16 * k THEN a = WriteAddress + 16 * k
    ELSE a + 2147483647 + 1 = (WriteAddress - 2147483647) + (16 * k - 1)
WriteByte(k) == ((k + 1) * 37 + 11) % 256
WriteChunks == (WriteN + UPDI_WRITE_STROKEN_LEN - 1) \div UPDI_WRITE_STROKEN_LEN
ChunkLen(k) ==
    IF WriteN - 16 * k > 16 THEN 16 ELSE WriteN - 16 * k
\* ceil(N/16) writes at address + 16k of the tokens 16k.. in order, then
\* ceil(N/16) reads at the same addresses with the same lengths
ChunkedWritesThenReads(At(_, _)) ==
    /\ Len(WriteCalls) = 2 * WriteChunks
    /\ \A k \in 0..(WriteChunks - 1) :
          /\ WriteCalls[k + 1].c.op = "nvm_write_mem"
          /\ At(WriteCalls[k + 1].c.a, k)
          /\ WriteCalls[k + 1].c.n = ChunkLen(k)
          /\ WriteCalls[k + 1].c.d = [m \in 1..ChunkLen(k) |-> WriteByte(16 * k + m - 1)]
          /\ WriteCalls[WriteChunks + k + 1].c.op = "nvm_read_mem"
          /\ At(WriteCalls[WriteChunks + k + 1].c.a, k)
          /\ WriteCalls[WriteChunks + k + 1].c.n = ChunkLen(k)
WriteRan == steps.updi_write # None /\ write.split # NULL /\ WriteN >= 1
NoFailed(op) == \A k \in DOMAIN WriteCalls :
                    WriteCalls[k].c.op = op => WriteCalls[k].c.ret = 0

\* C9 as claimed: with N >= 1 byte tokens, when every driver write succeeds,
\* updi_write issues ceil(N/16) writes in ascending order and then
\* ceil(N/16) readback reads at the same addresses with the same lengths.
C9_Original ==
    (WriteRan /\ NoFailed("nvm_write_mem")) => ChunkedWritesThenReads(IsAddressPlus)

\* C9 (amended): with N >= 1 byte tokens, when every driver write and every
\* readback read succeeds, updi_write issues ceil(N/16) writes in ascending
\* order, the k-th at address + 16k as the int addition of the build yields
\* it (less 2^32 once it exceeds INT_MAX, where C leaves it undefined: an
\* int sum of the step overflows exactly when address + N, with a last
\* window that is not full address + N + 1, exceeds INT_MAX), carrying the
\* byte tokens
\* 16k..min(16k+15, N-1), and then ceil(N/16) readback reads at the same
\* addresses with the same lengths; a failed readback read ends the readback.
C9_ChunkedWrite ==
    /\ (WriteRan /\ NoFailed("nvm_write_mem") /\ NoFailed("nvm_read_mem")) =>
          /\ ChunkedWritesThenReads(IsWrappedAddressPlus)
          /\ steps.updi_write.ovf <=>
                WriteAddress > 2147483647 - (IF WriteN % 16 = 0 THEN WriteN ELSE WriteN + 1)
    /\ (WriteRan /\ \E k \in DOMAIN WriteCalls :
                       WriteCalls[k].c.op = "nvm_read_mem" /\ WriteCalls[k].c.ret # 0) =>
          /\ WriteCalls[Len(WriteCalls)].c.ret # 0
          /\ steps.updi_write.ret = -5

\* 17 byte tokens at 0x2000: 16 bytes at 0x2000, 1 byte at 0x2010, two reads
C9_Witness ==
    /\ WriteRan /\ WriteN = 17 /\ WriteAddress = 8192
    /\ steps.updi_write.ret = 0
    /\ Len(WriteCalls) = 4
    /\ WriteCalls[1].c.a = 8192 /\ WriteCalls[1].c.n = 16
    /\ WriteCalls[2].c.a = 8208 /\ WriteCalls[2].c.n = 1
    /\ WriteCalls[3].c.op = "nvm_read_mem" /\ WriteCalls[4].c.op = "nvm_read_mem"

\* ---- updi_read ----
IsReadCall(e) == e.c.by = "updi_read"
ReadCalls == SelectSeq(log, IsReadCall)
\* the numbers the address and length tokens of the read commands stand for
ReadAddress ==
    CASE read.split.tok[1] = <<"1", "0", "0", "0">> -> 4096
      [] read.split.tok[1] = <<"0", "x", "3", "f", "0", "0">> -> 16128
      [] read.split.tok[1] = <<"F", "F">> -> 255
\* the length token's number where it is below 2^31, flagged where it is
\* above: 4294967297 = 2^32 + 1
ReadLength ==
    CASE read.split.tok[2] = <<"-", "1">> -> [n |-> 0 - 1, big |-> FALSE]
      [] read.split.tok[2] = <<"0">> -> [n |-> 0, big |-> FALSE]
      [] read.split.tok[2] = <<"1">> -> [n |-> 1, big |-> FALSE]
      [] read.split.tok[2] \in {<<"8">>, <<"\t", "8">>} -> [n |-> 8, big |-> FALSE]
      [] read.split.tok[2] = <<"2", "5", "5">> -> [n |-> 255, big |-> FALSE]
      [] read.split.tok[2] = <<"2", "5", "6">> -> [n |-> 256, big |-> FALSE]
      [] read.split.tok[2] = <<"3", "0", "0">> -> [n |-> 300, big |-> FALSE]
      [] read.split.tok[2] = <<"4", "2", "9", "4", "9", "6", "7", "2", "9", "7">> ->
            [n |-> 1, big |-> TRUE]
Min(a, b) == IF a < b THEN a ELSE b
\* one driver memory read at the parsed address, of len bytes
OneRead(len) ==
    /\ Len(ReadCalls) = 1
    /\ ReadCalls[1].c.op = "nvm_read_mem"
    /\ ReadCalls[1].c.a = ReadAddress
    /\ ReadCalls[1].c.n = len
\* an error is returned and no driver read is issued
ReadRejected == steps.updi_read.ret # 0 /\ ReadCalls = <<>>

\* C10 as claimed: a read command of exactly two tokens issues exactly one
\* driver memory read at the parsed address with length min(parsed length,
\* 255); any other token count is a parse error without a driver read.
C10_Original ==
    steps.updi_read # None =>
        IF read.split # NULL /\ Len(read.split.tok) = 2
        THEN OneRead(IF ReadLength.big THEN 255 ELSE Min(ReadLength.n, 255))
        ELSE ReadRejected

\* C10 (amended): with exactly two tokens, let n be the length token's
\* number converted to int (its low 32 bits: 2^32 + 1 becomes 1).  If n is
\* not negative, updi_read issues exactly one driver memory read at the
\* parsed address with length min(n, 255); if n is negative the buffer
\* cannot be allocated and -3 is returned without a driver read; any other
\* token count is a parse error without a driver read.
C10_ClampedRead ==
    steps.updi_read # None =>
        IF read.split # NULL /\ Len(read.split.tok) = 2
        THEN IF ReadLength.n >= 0 THEN OneRead(Min(ReadLength.n, 255))
             ELSE steps.updi_read.ret = -3 /\ ReadCalls = <<>>
        ELSE ReadRejected

\* "1000;300": one read of 255 bytes at 0x1000
C10_Witness ==
    /\ steps.updi_read # None /\ steps.updi_read.ret = 0
    /\ read = Cmd(<<<<"1", "0", "0", "0">>, <<"3", "0", "0">>>>)
    /\ Len(ReadCalls) = 1
    /\ ReadCalls[1].c.a = 4096 /\ ReadCalls[1].c.n = 255

\* ---- updi_save ----
IsSaveCall(e) == e.c.by = "updi_save"
SaveCalls == SelectSeq(log, IsSaveCall)

\* C11: updi_save reads exactly flash_size bytes at flash_start in one
\* driver read and hands the encoder an image of flash_size bytes whose
\* address span is [flash_start, flash_start + flash_size - 1], under the
\* name of the given file followed by ".save".
C11_SaveWholeFlash ==
    (steps.updi_save # None /\ steps.updi_save.saved # None) =>
        /\ Len(SaveCalls) = 2
        /\ SaveCalls[2].c.op = "nvm_read_flash"
        /\ SaveCalls[2].c.a = geo.flash_start
        /\ SaveCalls[2].c.n = geo.flash_size
        /\ steps.updi_save.saved.dhex.len = geo.flash_size
        /\ steps.updi_save.saved.dhex.addr_from = geo.flash_start
        /\ steps.updi_save.saved.dhex.addr_to =
              MSub(MAdd(geo.flash_start, geo.flash_size), U32(1))
        /\ steps.updi_save.saved.name = file.name \o ".save"

\* ---- the value main returns ----
\* the code of the first stage that failed, 0 if none did
StageCode ==
    IF dev_name \notin DeviceTable THEN -2
    ELSE IF nvm_ptr = NULL THEN -3
    ELSE IF Ret(2) # 0 THEN -4
    ELSE IF \E k \in IdxOf({"nvm_unlock_device"}) : Ret(k) # 0 THEN -5
    ELSE IF \E k \in IdxOf({"nvm_get_device_info"}) : k > 2 /\ Ret(k) # 0 THEN -6
    ELSE IF HelperFailed("updi_erase") THEN -7
    ELSE IF HelperFailed("updi_fuse") THEN -8
    ELSE IF HelperFailed("updi_flash") THEN -9
    ELSE IF HelperFailed("updi_save") THEN -10
    ELSE IF HelperFailed("updi_read") THEN -11
    ELSE IF HelperFailed("updi_write") THEN -12
    ELSE 0
\* no stage failed: the session exists, no driver call failed but a
\* program mode entry the unlock made good, and no helper returned non-zero
AllStagesSucceeded ==
    /\ nvm_ptr # NULL
    /\ FatalCalls = {}
    /\ \A hp \in Helpers : ~HelperFailed(hp)

\* earlier step comes after a call of a later step.
C13_StepOrder ==
    \A j, k \in DOMAIN log : j < k => RankOfEntry(j) <= RankOfEntry(k)

\* a finished run that erased, wrote a fuse, programmed, saved, read and wrote
C13_Witness ==
    /\ pc = "done" /\ result = 0
    /\ \A hp \in Helpers : steps[hp] # None

\* ---- the image of load_hex ----
\* C14: every image load_hex returns has addr_from <= addr_to,
\* len = addr_to - addr_from + 1 >= 1 in 32-bit arithmetic, and addr_from and
\* addr_to + 1 multiples of the page size, for every record span: also one
\* whose last address is a multiple of the page size, also a translated one.
C14_ImageInvariants ==
    (LoadRan /\ steps.updi_flash.dhex # NULL) =>
        /\ Le(steps.updi_flash.dhex.addr_from, steps.updi_flash.dhex.addr_to)
        /\ steps.updi_flash.dhex.len =
              Add32(Sub32(steps.updi_flash.dhex.addr_to, steps.updi_flash.dhex.addr_from), U32(1))
        /\ Lt(U32(0), steps.updi_flash.dhex.len)
        /\ PageAligned(steps.updi_flash.dhex.addr_from)
        /\ PageAligned(Add32(steps.updi_flash.dhex.addr_to, U32(1)))

\* ---- the driver calls of updi_flash ----
FlashCalls == SelectSeq(log, IsFlashCall)
\* the number of driver calls of a step in which none fails
FlashFull == IF FLAG_PROG \in flag THEN 4 ELSE 2
WholeImage(c) ==
    /\ c.a = steps.updi_flash.dhex.addr_from
    /\ c.n = steps.updi_flash.dhex.len

\* C15: with programming requested and no failing call, updi_flash issues
\* the geometry query, the chip erase, one flash write of the whole image
\* (addr_from, len) and the verification read of the same addr_from and len,
\* in this order; without programming, the query and the verification read;
\* a failing call is the last one: a failed erase prevents the write and the
\* read, a failed write the read.
C15_FlashOrder ==
    (steps.updi_flash # None /\ steps.updi_flash.dhex \notin {None, NULL}) =>
        /\ FlashOps = SubSeq(IF FLAG_PROG \in flag
                             THEN <<"nvm_get_flash_info", "nvm_chip_erase",
                                    "nvm_write_flash", "nvm_read_flash">>
                             ELSE <<"nvm_get_flash_info", "nvm_read_flash">>,
                             1, Len(FlashCalls))
        /\ \A k \in DOMAIN FlashCalls :
              /\ FlashCalls[k].c.op = "nvm_write_flash" =>
                    /\ WholeImage(FlashCalls[k].c)
                    /\ FlashCalls[k].c.d = steps.updi_flash.dhex.data
              /\ FlashCalls[k].c.op = "nvm_read_flash" => WholeImage(FlashCalls[k].c)
              /\ k < Len(FlashCalls) => FlashCalls[k].c.ret = 0
        /\ Len(FlashCalls) \in 2..FlashFull
        /\ Len(FlashCalls) < FlashFull => FlashCalls[Len(FlashCalls)].c.ret # 0

\* program and check of an image of at least one byte, no call failing
C15_Witness ==
    /\ steps.updi_flash # None /\ steps.updi_flash.dhex \notin {None, NULL}
    /\ flag = {FLAG_PROG, FLAG_CHECK}
    /\ Lt(U32(0), steps.updi_flash.dhex.len)
    /\ Len(FlashCalls) = 4
    /\ \A k \in DOMAIN FlashCalls : FlashCalls[k].c.ret = 0

\* ---- failures in updi_write ----
\* C16: in updi_write a failed driver call is the last driver call: after a
\* failed write neither a later full window nor the final partial window is
\* written and nothing is read back, after a failed readback read nothing
\* more is read; and updi_write then returns non-zero.  All writes come
\* before all reads.
C16_WriteStopsAtFailure ==
    (steps.updi_write # None /\ write.split # NULL) =>
        /\ \A k \in DOMAIN WriteCalls : WriteCalls[k].c.ret # 0 =>
              /\ k = Len(WriteCalls)
              /\ steps.updi_write.ret # 0
        /\ \A j, k \in DOMAIN WriteCalls :
              (j < k /\ WriteCalls[j].c.op = "nvm_read_mem") =>
                  WriteCalls[k].c.op = "nvm_read_mem"

\* 33 byte tokens whose first full window fails to be written: two windows
\* and three readbacks are left out
C16_Witness ==
    /\ steps.updi_write # None /\ write.split # NULL
    /\ WriteN = 33
    /\ Len(WriteCalls) = 1
    /\ WriteCalls[1].c.op = "nvm_write_mem" /\ WriteCalls[1].c.ret # 0
    /\ steps.updi_write.ret = -3

\* ---- updi_fuse ----
IsFuseCall(e) == e.c.by = "updi_fuse"
FuseCalls == SelectSeq(log, IsFuseCall)
\* the number the index token stands for
FuseIndexOf(t) ==
    CASE t = <<"0">> -> 0 [] t = <<"3">> -> 3 [] t = <<"1", "0">> -> 10
\* the low byte of the number the value token stands for: aa, aa, aa, 1ff,
\* 100, 0, -1, aa after a line feed, ffffffff
FuseByteOf(t) ==
    CASE t \in {<<"0", "x", "a", "a">>, <<"A", "A">>, <<"a", "A">>, <<"\n", "A", "A">>} -> 170
      [] t \in {<<"1", "f", "f">>, <<"-", "1">>,
                <<"f", "f", "f", "f", "f", "f", "f", "f">>} -> 255
      [] t \in {<<"0", "x", "1", "0", "0">>, <<"0">>} -> 0

\* C17: updi_fuse issues exactly one nvm_write_fuse, with the parsed index
\* and the parsed value cut to one byte, if and only if the fuse spec has
\* exactly two tokens, returning 0 or, when the driver fails, -3; with any
\* other token count it issues no fuse write and returns an error that is
\* not the one of a failed fuse write.
C17_FuseWrite ==
    steps.updi_fuse # None =>
        IF fuses.split # NULL /\ Len(fuses.split.tok) = 2
        THEN /\ Len(FuseCalls) = 1
             /\ FuseCalls[1].c.op = "nvm_write_fuse"
             /\ FuseCalls[1].c.a = FuseIndexOf(fuses.split.tok[1])
             /\ FuseCalls[1].c.d = <<FuseByteOf(fuses.split.tok[2])>>
             /\ steps.updi_fuse.ret = (IF FuseCalls[1].c.ret # 0 THEN -3 ELSE 0)
        ELSE /\ FuseCalls = <<>>
             /\ steps.updi_fuse.ret \notin {0, -3}

\* "10:1ff": one write of fuse 10 with the value cut to 0xff
C17_Witness ==
    /\ steps.updi_fuse # None /\ steps.updi_fuse.ret = 0
    /\ fuses = Cmd(<<<<"1", "0">>, <<"1", "f", "f">>>>)
    /\ Len(FuseCalls) = 1
    /\ FuseCalls[1].c.a = 10 /\ FuseCalls[1].c.d = <<255>>

\* ---- buffers ----
Buffers == {"dhex", "rdata", "save", "buf"}
\* the allocations of buffer b less its releases, in the first k heap events
Outstanding(b, k) ==
    Cardinality({j \in 1..k : heap[j] = Malloc(b)})
    - Cardinality({j \in 1..k : heap[j] = Free(b)})

\* C18: every buffer a step allocates (hex image, read-back buffer, save
\* buffer, read buffer) is released exactly once before the step returns, on
\* the success path and on every failure path: at no point is a buffer
\* released that is not allocated or allocated twice over, and when a step
\* has returned none is outstanding (a step in which the process is killed
\* does not return).
C18_BuffersReleasedOnce ==
    \A b \in Buffers :
        /\ \A k \in DOMAIN heap : Outstanding(b, k) \in {0, 1}
        /\ pc # "killed" => Outstanding(b, Len(heap)) = 0

\* a finished run that loaded and verified an image, failed to encode the
\* saved one after reading it: three buffers allocated and released
C18_Witness ==
    /\ pc = "done" /\ result = -10
    /\ steps.updi_save.ret = -5
    /\ steps.verify_hex # None
    /\ heap = <<Malloc("dhex"), Malloc("rdata"), Free("rdata"), Free("dhex"),
                Malloc("save"), Free("save")>>

\* C19: no driver function is called with a null session handle: after a
\* failed updi_nvm_init no nvm_leave_progmode, no updi_nvm_deinit and no
\* other driver call is issued.
C19_NoCallOnNullSession ==
    \A k \in DOMAIN log : Op(k) # "updi_nvm_init" => log[k].h # NULL

\* the driver calls that change the device
MutatingOps == {"nvm_chip_erase", "nvm_write_fuse", "nvm_write_flash", "nvm_write_mem"}

\* C20: every device-mutating driver call (chip erase, fuse write, flash
\* write, direct memory write) comes after a successful program mode entry
\* or a successful unlock of the same run.
C20_MutationInProgMode ==
    \A k \in IdxOf(MutatingOps) :
        \E j \in IdxOf({"nvm_enter_progmode", "nvm_unlock_device"}) : j < k /\ Ret(j) = 0

====
